---- MODULE Spec2Model ----
(***************************************************************************)
(* Model of the WebSocket channel handler                                  *)
(* (handlers/websocket/websocket.go): the register and receive webhooks    *)
(* and the outbound SendMsg.  The host runs one handler per HTTP request,  *)
(* so several requests are in flight at a time; each backend call is one   *)
(* atomic step and other requests may run between two calls.               *)
(***************************************************************************)
EXTENDS Integers, Sequences, FiniteSets, TLC

\* Most entries of "messages" arrays in the receive requests in flight.
MaxMsgs == 2
\* Most entries of "ack" arrays in the receive requests in flight.
MaxAcks == 2

\* the host's workers; each handles one request, at the same time as the
\* other or after it
Workers == {"w1", "w2"}

SeqsUpTo(S, n) == UNION {[1..k -> S] : k \in 0..n}

\* strings.Replace(s, old, "", 1) on a string held as a sequence of tokens:
\* the first occurrence of old is removed, the rest is kept.
RECURSIVE Replace1(_, _)
Replace1(s, old) ==
  IF s = <<>> THEN <<>>
  ELSE IF Head(s) = old THEN Tail(s)
  ELSE <<Head(s)>> \o Replace1(Tail(s), old)

VARIABLES
  pc,        \* per worker, position of the receive handler: "idle", "msgs",
             \* "write", "record", "acks", "done"
  payload,   \* per worker, decoded moPayload of the request being handled
  mi,        \* per worker, index of the next message of payload.messages
  ai,        \* per worker, index of the next acknowledgement of payload.ack
  cur,       \* per worker, the event of the message being handled
  events,    \* per worker, the handler's events slice
  data,      \* per worker, the handler's data slice (response items)
  calls,     \* per worker, backend write calls made by the request
  resp,      \* per worker, what the receive handler returned
  persisted, \* backend: number of stored incoming messages per external id
  seen,      \* backend: external ids recorded as seen
  regPc,     \* per worker, position of registerUser: "idle", "lang", "done"
  regReq,    \* per worker, the register request
  regResp,   \* per worker, how registerUser ended for it
  regCalls,  \* per worker, backend calls made by the register request
  contacts,  \* backend: per identifier, the contact and its language
  sendIn,    \* the last message given to SendMsg
  posts,     \* HTTP POSTs issued by the last SendMsg
  sendOut    \* how the last SendMsg ended

recvVars ==
  <<pc, payload, mi, ai, cur, events, data, calls, resp, persisted, seen>>
regVars == <<regPc, regReq, regResp, regCalls, contacts>>
sendVars == <<sendIn, posts, sendOut>>
vars == <<recvVars, regVars, sendVars>>

----------------------------------------------------------------------------
\* Inputs of the receive webhook.

DigitTokens == {"5511999"}
GoodAuthor == <<"5511999", "@c.us">>
BadAuthor == <<"group", "@g.us">>

MsgIDs == {"", "m1"}

Msg(id, fromMe, author, type) ==
  [id |-> id, fromMe |-> fromMe, author |-> author, type |-> type,
   body |-> "B", caption |-> "C", senderName |-> "Ann", time |-> 1]

MsgInputs ==
  { Msg("m1", FALSE, GoodAuthor, "chat"),
    Msg("",   FALSE, GoodAuthor, "image"),
    Msg("m1", TRUE,  BadAuthor,  "chat"),
    Msg("",   FALSE, BadAuthor,  "chat") }

\* external ids of the outbound messages the backend knows
OutboundIDs == {"o1"}

AckInputs ==
  { [id |-> "o1", status |-> "sent"],
    [id |-> "zz", status |-> "delivered"] }

\* payloads naming their instance, and a few that do not
Payloads ==
  [instanceID : {"i1"},
   messages : SeqsUpTo(MsgInputs, MaxMsgs),
   ack : SeqsUpTo(AckInputs, MaxAcks)]
  \cup
  [instanceID : {""},
   messages : SeqsUpTo(MsgInputs, 1),
   ack : SeqsUpTo(AckInputs, 1)]

NoPayload == [instanceID |-> "", messages |-> <<>>, ack |-> <<>>]

\* a request body: JSON holding a payload, or text that is no JSON
ReceiveRequests ==
  {[json |-> TRUE, body |-> p] : p \in Payloads}
    \cup {[json |-> FALSE, body |-> NoPayload]}

----------------------------------------------------------------------------
\* Libraries the handler calls.

\* handlers.DecodeAndValidateJSON: fails on a body that is not JSON
DecodeOK(r) == r.json

\* urns.NewWhatsAppURN: the path must be a number
WhatsAppURNValid(path) == Len(path) = 1 /\ path[1] \in DigitTokens
NewWhatsAppURN(path) == [scheme |-> "whatsapp", path |-> path]

\* handlers.NameFromFirstLastUsername
NameFromFirstLastUsername(first, last, username) ==
  IF first # "" /\ last # "" THEN <<first, last>>
  ELSE IF first # "" THEN <<first>>
  ELSE IF last # "" THEN <<last>>
  ELSE IF username # "" THEN <<username>>
  ELSE <<>>

----------------------------------------------------------------------------
\* The backend, an external collaborator reached through the Backend
\* interface; each of its calls is atomic.

NewIncomingMsg(urn, text) ==
  [kind |-> "msg", urn |-> urn, text |-> text, externalID |-> "",
   receivedOn |-> 0, contactName |-> <<>>, attachments |-> <<>>,
   alreadyWritten |-> FALSE]

\* an event whose external id was seen before is marked as already written
CheckExternalIDSeen(ev, s) ==
  [ev EXCEPT !.alreadyWritten = (ev.externalID \in s)]

\* WriteMsg stores a message unless it is marked as already written
StoreMsg(store, ev) ==
  IF ev.alreadyWritten THEN store
  ELSE [store EXCEPT ![ev.externalID] = @ + 1]

WriteExternalIDSeen(s, ev) == s \cup {ev.externalID}

NewMsgStatusForExternalID(id, status) ==
  [kind |-> "status", externalID |-> id, status |-> status]

\* WriteMsgStatus answers ErrMsgNotFound for an id of no outbound message
StatusErrors(ev) ==
  IF ev.externalID \in OutboundIDs THEN {"nil", "db-error"}
  ELSE {"ErrMsgNotFound"}

----------------------------------------------------------------------------
\* receiveMessage

\* line 101: only messages that are not from the account itself are handled
NotFromMeAlways(m) == TRUE
NotFromMe(m) == m.fromMe = FALSE

\* lines 116-122: the text is the body, or the caption of an image
MsgText(m) == IF m.type = "image" THEN m.caption ELSE m.body
IsAttachment(m) == m.type = "image"

\* lines 103-125: the event built from a message
BuildEvent(m) ==
  [NewIncomingMsg(NewWhatsAppURN(Replace1(m.author, "@c.us")), MsgText(m))
     EXCEPT !.externalID = m.id,
            !.receivedOn = m.time,
            !.contactName = NameFromFirstLastUsername(m.senderName, "", "")]

\* line 126
CheckedEvent(ev, s) == CheckExternalIDSeen(ev, s)

\* lines 128-130
WithAttachment(ev, m) ==
  IF IsAttachment(m) THEN [ev EXCEPT !.attachments = Append(@, m.body)] ELSE ev

\* lines 126-130: the event handed to WriteMsg
EventFor(m, s) == WithAttachment(CheckedEvent(BuildEvent(m), s), m)

NoEvent == NewIncomingMsg(NewWhatsAppURN(<<>>), "")

NewMsgReceiveData(ev) ==
  [type |-> "msg", externalID |-> ev.externalID, text |-> ev.text]
NewStatusData(ev) ==
  [type |-> "status", externalID |-> ev.externalID, status |-> ev.status]
NewInfoData(info) == [type |-> "info", info |-> info]

\* lines 139-140, 159, 167-168: results are appended
AddFirst(s, x) == <<x>> \o s
Add(s, x) == Append(s, x)

\* lines 146-152
AckStatus(ack) ==
  IF ack.status = "sent" THEN "S"
  ELSE IF ack.status = "delivered" THEN "D"
  ELSE "Q"

\* line 158: an unknown message is reported and skipped
IgnoredErrNever(err) == FALSE
IgnoredErr(err) == err = "ErrMsgNotFound"

\* lines 134, 164: what is returned with a backend error
ErrReturnPartial(evs, d) == [kind |-> "error", events |-> evs, data |-> d]
ErrReturn(evs, d) == [kind |-> "error", events |-> <<>>, data |-> <<>>]

RequestError == [kind |-> "request_error", events |-> <<>>, data |-> <<>>]
RequestIgnored == [kind |-> "ignored", events |-> <<>>, data |-> <<>>]
NoResp == [kind |-> "none", events |-> <<>>, data |-> <<>>]

AfterMsg(i, p) == IF i > Len(p.messages) THEN "acks" ELSE "msgs"

\* entries of the arrays held by the requests of the workers in ws
RECURSIVE MsgsHeld(_)
MsgsHeld(ws) ==
  IF ws = {} THEN 0
  ELSE LET w == CHOOSE x \in ws : TRUE
       IN Len(payload[w].messages) + MsgsHeld(ws \ {w})
RECURSIVE AcksHeld(_)
AcksHeld(ws) ==
  IF ws = {} THEN 0
  ELSE LET w == CHOOSE x \in ws : TRUE
       IN Len(payload[w].ack) + AcksHeld(ws \ {w})

\* lines 81-96
ReceiveRequest(w) ==
  /\ pc[w] = "idle"
  /\ \E r \in ReceiveRequests :
       /\ Len(r.body.messages) + MsgsHeld(Workers \ {w}) <= MaxMsgs
       /\ Len(r.body.ack) + AcksHeld(Workers \ {w}) <= MaxAcks
       /\ IF ~DecodeOK(r)
            THEN /\ payload' = [payload EXCEPT ![w] = NoPayload]
                 /\ resp' = [resp EXCEPT ![w] = RequestError]
                 /\ pc' = [pc EXCEPT ![w] = "done"]
          ELSE IF r.body.instanceID = ""
            THEN /\ payload' = [payload EXCEPT ![w] = r.body]
                 /\ resp' = [resp EXCEPT ![w] = RequestIgnored]
                 /\ pc' = [pc EXCEPT ![w] = "done"]
          ELSE /\ payload' = [payload EXCEPT ![w] = r.body]
               /\ resp' = resp
               /\ pc' = [pc EXCEPT ![w] = AfterMsg(1, r.body)]
  /\ UNCHANGED <<mi, ai, cur, events, data, calls, persisted, seen>>

\* lines 99-130: a message is skipped, rejected, or built into an event and
\* checked against the external ids seen
StartMessage(w) ==
  /\ pc[w] = "msgs"
  /\ mi[w] <= Len(payload[w].messages)
  /\ LET m == payload[w].messages[mi[w]]
     IN IF ~NotFromMe(m)
          THEN /\ mi' = [mi EXCEPT ![w] = @ + 1]
               /\ pc' = [pc EXCEPT ![w] = AfterMsg(mi[w] + 1, payload[w])]
               /\ UNCHANGED <<cur, resp>>
        ELSE IF ~WhatsAppURNValid(Replace1(m.author, "@c.us"))
          THEN /\ resp' = [resp EXCEPT ![w] = RequestError]
               /\ pc' = [pc EXCEPT ![w] = "done"]
               /\ UNCHANGED <<mi, cur>>
        ELSE /\ cur' = [cur EXCEPT ![w] = EventFor(m, seen)]
             /\ pc' = [pc EXCEPT ![w] = "write"]
             /\ UNCHANGED <<mi, resp>>
  /\ UNCHANGED <<payload, ai, events, data, calls, persisted, seen>>

\* lines 132-135
WriteMsg(w) ==
  /\ pc[w] = "write"
  /\ \/ /\ ~cur[w].alreadyWritten
        /\ calls' = [calls EXCEPT ![w] =
             Append(@, [op |-> "WriteMsg", idx |-> mi[w],
                        id |-> cur[w].externalID, err |-> "db-error"])]
        /\ resp' = [resp EXCEPT ![w] = ErrReturn(events[w], data[w])]
        /\ pc' = [pc EXCEPT ![w] = "done"]
        /\ UNCHANGED persisted
     \/ /\ persisted' = StoreMsg(persisted, cur[w])
        /\ calls' = [calls EXCEPT ![w] =
             Append(@, [op |-> "WriteMsg", idx |-> mi[w],
                        id |-> cur[w].externalID, err |-> "nil"])]
        /\ pc' = [pc EXCEPT ![w] = "record"]
        /\ UNCHANGED resp
  /\ UNCHANGED <<payload, mi, ai, cur, events, data, seen>>

\* lines 137-140
RecordSeen(w) ==
  /\ pc[w] = "record"
  /\ seen' = WriteExternalIDSeen(seen, cur[w])
  /\ calls' = [calls EXCEPT ![w] =
       Append(@, [op |-> "WriteExternalIDSeen", idx |-> mi[w],
                  id |-> cur[w].externalID, err |-> "nil"])]
  /\ events' = [events EXCEPT ![w] = Add(@, cur[w])]
  /\ data' = [data EXCEPT ![w] = Add(@, NewMsgReceiveData(cur[w]))]
  /\ cur' = [cur EXCEPT ![w] = NoEvent]
  /\ mi' = [mi EXCEPT ![w] = @ + 1]
  /\ pc' = [pc EXCEPT ![w] = AfterMsg(mi[w] + 1, payload[w])]
  /\ UNCHANGED <<payload, ai, resp, persisted>>

\* lines 144-170, one iteration
HandleAck(w) ==
  /\ pc[w] = "acks"
  /\ ai[w] <= Len(payload[w].ack)
  /\ LET ack == payload[w].ack[ai[w]]
         ev == NewMsgStatusForExternalID(ack.id, AckStatus(ack))
     IN \E err \in StatusErrors(ev) :
          /\ calls' = [calls EXCEPT ![w] =
               Append(@, [op |-> "WriteMsgStatus", idx |-> ai[w],
                          id |-> ack.id, err |-> err])]
          /\ IF IgnoredErr(err)
               THEN /\ data' = [data EXCEPT ![w] =
                         Add(@, NewInfoData("message not found, ignored"))]
                    /\ ai' = [ai EXCEPT ![w] = @ + 1]
                    /\ UNCHANGED <<events, resp, pc>>
             ELSE IF err # "nil"
               THEN /\ resp' = [resp EXCEPT ![w] = ErrReturn(events[w], data[w])]
                    /\ pc' = [pc EXCEPT ![w] = "done"]
                    /\ UNCHANGED <<ai, events, data>>
             ELSE /\ events' = [events EXCEPT ![w] = Add(@, ev)]
                  /\ data' = [data EXCEPT ![w] = Add(@, NewStatusData(ev))]
                  /\ ai' = [ai EXCEPT ![w] = @ + 1]
                  /\ UNCHANGED <<resp, pc>>
  /\ UNCHANGED <<payload, mi, cur, persisted, seen>>

\* line 172
WriteDataResponse(w) ==
  /\ pc[w] = "acks"
  /\ ai[w] > Len(payload[w].ack)
  /\ resp' = [resp EXCEPT ![w] =
       [kind |-> "data", events |-> events[w], data |-> data[w]]]
  /\ pc' = [pc EXCEPT ![w] = "done"]
  /\ UNCHANGED <<payload, mi, ai, cur, events, data, calls, persisted, seen>>

RecvInit ==
  /\ pc = [w \in Workers |-> "idle"]
  /\ payload = [w \in Workers |-> NoPayload]
  /\ mi = [w \in Workers |-> 1]
  /\ ai = [w \in Workers |-> 1]
  /\ cur = [w \in Workers |-> NoEvent]
  /\ events = [w \in Workers |-> <<>>]
  /\ data = [w \in Workers |-> <<>>]
  /\ calls = [w \in Workers |-> <<>>]
  /\ resp = [w \in Workers |-> NoResp]
  /\ persisted = [id \in MsgIDs |-> 0]
  /\ seen = {}

----------------------------------------------------------------------------
\* registerUser

URNs == {"", "u1", "u2"}
LangTags == {"en", "pt-BR", "", "!!"}

RegRequests ==
  [json : {TRUE}, urn : URNs, language : LangTags]
    \cup {[json |-> FALSE, urn |-> "", language |-> ""]}

NoRegRequest == [json |-> FALSE, urn |-> "", language |-> ""]

\* language.Parse: is the tag well-formed
LanguageParses(tag) == tag \in {"en", "pt-BR"}
\* tag.Base() and Base.ISO3()
LanguageBase(tag) == IF tag = "pt-BR" THEN "pt" ELSE tag
ISO3(base) == IF base = "en" THEN "eng" ELSE IF base = "pt" THEN "por" ELSE "und"

NoContact == [exists |-> FALSE, language |-> ""]
ContactUUID(urn) == <<"contact", urn>>
NewEventRegisteredContactData(uuid) == [type |-> "contact", uuid |-> uuid]

RegResponse(kind) == [kind |-> kind, data |-> <<>>]

\* line 46
NoIdentifierNever(p) == FALSE
NoIdentifier(p) == p.urn = ""

\* lines 38-62. urnOK: urns.NewURNFromParts accepts the identifier for the
\* channel's scheme; getOK: GetContact succeeds (it gets or creates).
RegisterStart(w) ==
  /\ regPc[w] = "idle"
  /\ \E r \in RegRequests, urnOK \in BOOLEAN, getOK \in BOOLEAN :
       /\ regReq' = [regReq EXCEPT ![w] = r]
       /\ IF ~DecodeOK(r)
            THEN /\ regResp' = [regResp EXCEPT ![w] = RegResponse("request_error")]
                 /\ regPc' = [regPc EXCEPT ![w] = "done"]
                 /\ UNCHANGED <<regCalls, contacts>>
          ELSE IF NoIdentifier(r)
            THEN /\ regResp' = [regResp EXCEPT ![w] = RegResponse("ignored")]
                 /\ regPc' = [regPc EXCEPT ![w] = "done"]
                 /\ UNCHANGED <<regCalls, contacts>>
          ELSE IF ~urnOK
            THEN /\ regResp' = [regResp EXCEPT ![w] = RegResponse("request_error")]
                 /\ regPc' = [regPc EXCEPT ![w] = "done"]
                 /\ UNCHANGED <<regCalls, contacts>>
          ELSE /\ regCalls' = [regCalls EXCEPT ![w] =
                    Append(@, [op |-> "GetContact", urn |-> r.urn, language |-> ""])]
               /\ IF ~getOK
                    THEN /\ regResp' = [regResp EXCEPT ![w] =
                              RegResponse("request_error")]
                         /\ regPc' = [regPc EXCEPT ![w] = "done"]
                         /\ UNCHANGED contacts
                  ELSE /\ contacts' = [contacts EXCEPT ![r.urn].exists = TRUE]
                       /\ regPc' = [regPc EXCEPT ![w] = "lang"]
                       /\ UNCHANGED regResp
  /\ UNCHANGED <<recvVars, sendVars>>

\* lines 64-76. langOK: AddLanguageToContact succeeds.
RegisterFinish(w) ==
  /\ regPc[w] = "lang"
  /\ LET r == regReq[w]
         iso == ISO3(LanguageBase(r.language))
     IN IF ~LanguageParses(r.language)
          \* line 65: language.MustParse panics, the handler writes no response
          THEN /\ regResp' = [regResp EXCEPT ![w] = RegResponse("panic")]
               /\ UNCHANGED <<regCalls, contacts>>
        ELSE \E langOK \in BOOLEAN :
          /\ regCalls' = [regCalls EXCEPT ![w] =
               Append(@, [op |-> "AddLanguageToContact", urn |-> r.urn,
                          language |-> iso])]
          /\ IF ~langOK
               THEN /\ regResp' = [regResp EXCEPT ![w] = RegResponse("request_error")]
                    /\ UNCHANGED contacts
             ELSE /\ contacts' = [contacts EXCEPT ![r.urn].language = iso]
                  /\ regResp' = [regResp EXCEPT ![w] =
                       [kind |-> "data",
                        data |-> <<NewEventRegisteredContactData(ContactUUID(r.urn))>>]]
  /\ regPc' = [regPc EXCEPT ![w] = "done"]
  /\ UNCHANGED <<regReq, recvVars, sendVars>>

RegInit ==
  /\ regPc = [w \in Workers |-> "idle"]
  /\ regReq = [w \in Workers |-> NoRegRequest]
  /\ regResp = [w \in Workers |-> RegResponse("none")]
  /\ regCalls = [w \in Workers |-> <<>>]
  /\ contacts = [u \in URNs |-> NoContact]

----------------------------------------------------------------------------
\* SendMsg

\* msg.ID().String(): the decimal digits of the id
RECURSIVE IDString(_)
IDString(n) == IF n < 10 THEN <<n>> ELSE IDString(n \div 10) \o <<n % 10>>

OutMsgs ==
  [id : {7, 12},
   text : {"", "hello"},
   path : {<<"+", "1555">>, <<"1555">>},
   address : {<<"+", "1777">>, <<"1888">>, <<"%zz">>},
   quickReplies : {<<>>, <<"Yes", "No">>},
   attachments : {<<>>, <<"image/png:u">>}]

NoMsg == [id |-> 0, text |-> "", path |-> <<>>, address |-> <<>>,
          quickReplies |-> <<>>, attachments |-> <<>>]

\* http.NewRequest: the address must parse as a URL
URLParses(address) == address # <<"%zz">>

\* utils.MakeHTTPRequest: the request completes with a 2xx answer, or an
\* error is returned (no connection, or an answer that is not 2xx)
HTTPOutcomes == {"ok", "transport-error", "non-2xx"}
HTTPError(outcome) == IF outcome = "ok" THEN "nil" ELSE outcome

\* lines 198-218
DataPayload(msg) ==
  [ID |-> IDString(msg.id),
   Text |-> msg.text,
   To |-> msg.path,
   ToNoPlus |-> Replace1(msg.path, "+"),
   From |-> msg.address,
   FromNoPlus |-> Replace1(msg.address, "+"),
   Channel |-> Replace1(msg.address, "+"),
   Metadata |-> IF Len(msg.quickReplies) > 0
                  THEN [quick_replies |-> msg.quickReplies] ELSE <<>>,
   Attachments |-> IF Len(msg.attachments) > 0 THEN msg.attachments ELSE <<>>]

\* line 177: json.Marshal of a dataPayload, which holds strings only
MarshalFails(body) == FALSE

\* line 189: NewChannelLogFromRR("Message Sent", ..).WithError("Message Send
\* Error", err): an error replaces the description
SendLog(err) ==
  [description |-> IF err = "nil" THEN "Message Sent" ELSE "Message Send Error",
   err |-> err]

\* lines 176-192. The error of http.NewRequest is dropped (line 183): with an
\* address that is no URL the request is nil and line 184 panics.
SendMsgPart(apiURL, body, outcome) ==
  IF MarshalFails(body)
    THEN [panic |-> FALSE, externalID |-> "", err |-> "marshal-error",
          posts |-> <<>>,
          log |-> [description |-> "unable to build JSON body",
                   err |-> "marshal-error"]]
  ELSE IF ~URLParses(apiURL)
    THEN [panic |-> TRUE, externalID |-> "", err |-> "nil", posts |-> <<>>,
          log |-> SendLog("nil")]
  ELSE [panic |-> FALSE, externalID |-> "", err |-> "nil",
        posts |-> <<[method |-> "POST", url |-> apiURL, body |-> body,
                     contentType |-> "application/json",
                     accept |-> "application/json", outcome |-> outcome]>>,
        log |-> SendLog(HTTPError(outcome))]

\* line 227
HasTextOrAttachment(msg) == msg.text # "" \/ Len(msg.attachments) > 0
HasText(msg) == msg.text # ""

\* lines 195-239
SendMsgResult(msg, outcome) ==
  LET part == SendMsgPart(msg.address, DataPayload(msg), outcome)
      hasError == IF HasText(msg) THEN part.err # "nil" ELSE TRUE
  IN IF HasText(msg) /\ part.panic
       THEN [panicked |-> TRUE, status |-> "none", externalID |-> "",
             logs |-> <<>>, posts |-> <<>>, err |-> "none"]
     ELSE [panicked |-> FALSE,
           status |-> IF hasError THEN "E" ELSE "W",
           externalID |-> IF HasText(msg) THEN part.externalID ELSE "",
           logs |-> IF HasText(msg) THEN <<part.log>> ELSE <<>>,
           posts |-> IF HasText(msg) THEN part.posts ELSE <<>>,
           err |-> "nil"]

SendMsg ==
  \E msg \in OutMsgs, outcome \in HTTPOutcomes :
    LET r == SendMsgResult(msg, outcome)
    IN /\ sendIn' = msg
       /\ posts' = r.posts
       /\ sendOut' = [called |-> TRUE, panicked |-> r.panicked,
                      status |-> r.status, externalID |-> r.externalID,
                      logs |-> r.logs, err |-> r.err]
       /\ UNCHANGED <<recvVars, regVars>>

SendInit ==
  /\ sendIn = NoMsg
  /\ posts = <<>>
  /\ sendOut = [called |-> FALSE, panicked |-> FALSE, status |-> "E",
                externalID |-> "", logs |-> <<>>, err |-> "nil"]

----------------------------------------------------------------------------
Init == RecvInit /\ RegInit /\ SendInit

RecvNext ==
  \/ \E w \in Workers : ReceiveRequest(w) /\ UNCHANGED <<regVars, sendVars>>
  \/ \E w \in Workers : StartMessage(w) /\ UNCHANGED <<regVars, sendVars>>
  \/ \E w \in Workers : WriteMsg(w) /\ UNCHANGED <<regVars, sendVars>>
  \/ \E w \in Workers : RecordSeen(w) /\ UNCHANGED <<regVars, sendVars>>
  \/ \E w \in Workers : HandleAck(w) /\ UNCHANGED <<regVars, sendVars>>
  \/ \E w \in Workers : WriteDataResponse(w) /\ UNCHANGED <<regVars, sendVars>>

RegNext ==
  \/ \E w \in Workers : RegisterStart(w)
  \/ \E w \in Workers : RegisterFinish(w)

\* the receive webhook: two requests, overlapping or one after the other
SpecReceive == Init /\ [][RecvNext]_vars

\* the register webhook: two requests, overlapping or one after the other
SpecRegister == Init /\ [][RegNext]_vars

\* outbound sends
SpecSend == Init /\ [][SendMsg]_vars

----------------------------------------------------------------------------
\* Properties of receiveMessage.

Handled(w) == SubSeq(payload[w].messages, 1, mi[w] - 1)
ForeignMsg(m) == ~m.fromMe
IsMsgItem(d) == d.type = "msg"
IsStatusCall(c) == c.op = "WriteMsgStatus"
CallIdxs(w) == 1..Len(calls[w])

\* C2: the same inbound message (same external id) submitted twice, in one
\* batch or in two requests, is stored exactly once: no non-empty external
\* id is ever stored twice.
C2_StoredOnce == \A id \in MsgIDs \ {""} : persisted[id] <= 1

\* C3: an acknowledgement whose id matches no outbound message adds the item
\* "message not found, ignored" at its place in the response, is no error,
\* produces no status event, and the acknowledgements after it are handled.
C3_NotFoundIgnored ==
  \A w \in Workers : \A j \in CallIdxs(w) :
    (calls[w][j].op = "WriteMsgStatus" /\ calls[w][j].id \notin OutboundIDs) =>
      LET k == calls[w][j].idx
          n == Len(SelectSeq(data[w], IsMsgItem))
      IN /\ Len(data[w]) >= n + k
         /\ data[w][n + k] =
              [type |-> "info", info |-> "message not found, ignored"]
         /\ \A e \in 1..Len(events[w]) :
              events[w][e].kind = "status"
                => events[w][e].externalID # calls[w][j].id
         /\ (j = Len(calls[w]) /\ pc[w] = "done")
              => (resp[w].kind = "data" /\ k = Len(payload[w].ack))
         /\ (j = Len(calls[w]) /\ pc[w] # "done")
              => (pc[w] = "acks" /\ ai[w] = k + 1)
         /\ (pc[w] = "done" /\ resp[w].kind = "data")
              => Len(SelectSeq(calls[w], IsStatusCall)) = Len(payload[w].ack)

\* an unknown acknowledgement followed by a known one: both were handled,
\* the first as a note, the second as a status event
C3_Witness ==
  \E w \in Workers :
    /\ pc[w] = "done" /\ resp[w].kind = "data"
    /\ Len(payload[w].ack) = 2
    /\ payload[w].ack[1].id \notin OutboundIDs
    /\ payload[w].ack[2].id \in OutboundIDs
    /\ resp[w].data[Len(resp[w].data) - 1].type = "info"
    /\ resp[w].data[Len(resp[w].data)].type = "status"
    /\ \E e \in 1..Len(resp[w].events) : resp[w].events[e].kind = "status"

\* C6: when WriteMsg fails for a message the handler stops there: the error
\* is returned with no events and no response items, the failed call is the
\* last backend call of the request (no later message is written or marked
\* as seen, no acknowledgement is applied), and the messages written before
\* it stay stored.
C6_AbortOnWriteFailure ==
  \A w \in Workers : \A j \in CallIdxs(w) :
    (calls[w][j].op = "WriteMsg" /\ calls[w][j].err # "nil") =>
      /\ j = Len(calls[w])
      /\ pc[w] = "done"
      /\ resp[w] = [kind |-> "error", events |-> <<>>, data |-> <<>>]
      /\ \A i \in 1..(j - 1) :
           /\ calls[w][i].op \in {"WriteMsg", "WriteExternalIDSeen"}
           /\ calls[w][i].idx < calls[w][j].idx
           /\ calls[w][i].err = "nil"
           /\ persisted[calls[w][i].id] >= 1
           /\ calls[w][i].op = "WriteExternalIDSeen" => calls[w][i].id \in seen

\* the second message of a batch failed to be written, with an
\* acknowledgement waiting: the first message is stored, the second is not,
\* and the acknowledgement was not applied
C6_Witness ==
  \E w \in Workers :
    /\ pc[w] = "done" /\ resp[w].kind = "error"
    /\ Len(payload[w].messages) = 2 /\ Len(payload[w].ack) >= 1
    /\ Len(calls[w]) = 3
    /\ calls[w][3].op = "WriteMsg" /\ calls[w][3].err # "nil"
    /\ calls[w][3].idx = 2
    /\ persisted[payload[w].messages[1].id] = 1
    /\ persisted[payload[w].messages[2].id] = 0
    /\ payload[w].messages[2].id \notin seen

\* C7: every event handed to WriteMsg carries a non-empty external id.
C7_ExternalIDNonEmpty ==
  \A w \in Workers : \A j \in CallIdxs(w) :
    calls[w][j].op = "WriteMsg" => calls[w][j].id # ""

\* C8: the handler's step over a message with fromMe = true changes nothing
\* but the loop index: nothing is stored, marked as seen, reported or
\* returned.
C8_FromMeSkipped ==
  [][ \A w \in Workers :
        ( /\ pc[w] = "msgs"
          /\ mi[w] <= Len(payload[w].messages)
          /\ payload[w].messages[mi[w]].fromMe
          /\ <<pc[w], mi[w], resp[w]>>' # <<pc[w], mi[w], resp[w]>> )
        => ( /\ mi'[w] = mi[w] + 1
             /\ pc'[w] \in {"msgs", "acks"}
             /\ UNCHANGED <<events, data, calls, resp, cur, payload,
                            persisted, seen>> )
    ]_vars

\* a batch of a self-authored message and another one was answered with the
\* item of the other one only
C8_Witness ==
  \E w \in Workers :
    /\ pc[w] = "done" /\ resp[w].kind = "data"
    /\ Len(payload[w].messages) = 2
    /\ payload[w].messages[1].fromMe
    /\ ~payload[w].messages[2].fromMe
    /\ Len(SelectSeq(resp[w].data, IsMsgItem)) = 1
    /\ \A j \in CallIdxs(w) : calls[w][j].idx = 2 \/ IsStatusCall(calls[w][j])

\* C9: messages are written in input order, acknowledgements are applied in
\* input order after every message, and the response items keep that order:
\* one item per message not self-authored, then one per acknowledgement.
C9_InputOrder ==
  \A w \in Workers :
    LET own == SelectSeq(Handled(w), ForeignMsg)
        n == Len(own)
    IN /\ Len(data[w]) = n + (ai[w] - 1)
       /\ \A k \in 1..n :
            data[w][k].type = "msg" /\ data[w][k].externalID = own[k].id
       /\ \A k \in 1..(ai[w] - 1) :
            /\ data[w][n + k].type \in {"status", "info"}
            /\ data[w][n + k].type = "status"
                 => data[w][n + k].externalID = payload[w].ack[k].id
       /\ \A i, j \in CallIdxs(w) :
            i < j =>
              /\ IsStatusCall(calls[w][i]) => IsStatusCall(calls[w][j])
              /\ calls[w][i].op = calls[w][j].op
                   => calls[w][i].idx < calls[w][j].idx
              /\ calls[w][i].idx <= calls[w][j].idx \/ IsStatusCall(calls[w][j])
       /\ (pc[w] = "done" /\ resp[w].kind = "data") => resp[w].data = data[w]

\* two different messages and two different acknowledgements were answered
C9_Witness ==
  \E w \in Workers :
    /\ pc[w] = "done" /\ resp[w].kind = "data"
    /\ Len(payload[w].messages) = 2 /\ Len(payload[w].ack) = 2
    /\ ~payload[w].messages[1].fromMe /\ ~payload[w].messages[2].fromMe
    /\ payload[w].messages[1].id # payload[w].messages[2].id
    /\ payload[w].ack[1] # payload[w].ack[2]
    /\ Len(resp[w].data) = 4

----------------------------------------------------------------------------
\* Properties of registerUser.

\* C4: a request with a non-empty identifier and a malformed language tag
\* ends in a request-error response.
C4_MalformedLanguageIsRequestError ==
  \A w \in Workers :
    (regPc[w] = "done" /\ regReq[w].json /\ regReq[w].urn # ""
       /\ ~LanguageParses(regReq[w].language))
      => regResp[w].kind = "request_error"

\* C5: a request whose identifier is empty makes no backend call and is
\* answered as ignored, whatever its language field holds.
C5_EmptyIdentifierIgnored ==
  /\ \A w \in Workers :
       (regPc[w] # "idle" /\ regReq[w].json /\ regReq[w].urn = "")
         => /\ regPc[w] = "done"
            /\ regResp[w].kind = "ignored"
            /\ regCalls[w] = <<>>
  /\ contacts[""] = NoContact

\* a request without identifier and with a malformed language was ignored
\* while another contact was registered
C5_Witness ==
  \E w \in Workers :
    /\ regPc[w] = "done"
    /\ regReq[w].json /\ regReq[w].urn = "" /\ regReq[w].language = "!!"
    /\ regResp[w].kind = "ignored"
    /\ regCalls[w] = <<>>
    /\ contacts["u1"].exists

----------------------------------------------------------------------------
\* Properties of SendMsg.

\* C1: for a message with text and no attachments, when SendMsg returns,
\* exactly one POST was issued and the status is wired exactly when that
\* POST completed without error; otherwise it stays errored.
C1_WiredIffPostSucceeded ==
  (sendOut.called /\ ~sendOut.panicked
     /\ sendIn.text # "" /\ sendIn.attachments = <<>>)
    => /\ Len(posts) = 1
       /\ (sendOut.status = "W") <=> (posts[1].outcome = "ok")

\* C10: for a message with empty text no POST is issued and the status stays
\* errored with no log, whatever attachments or quick replies it carries;
\* whenever SendMsg returns, the error it returns is nil.
C10_EmptyTextNotSent ==
  sendOut.called =>
    /\ ~sendOut.panicked => sendOut.err = "nil"
    /\ sendIn.text = ""
         => /\ ~sendOut.panicked
            /\ posts = <<>>
            /\ sendOut.status = "E"
            /\ sendOut.logs = <<>>
            /\ sendOut.err = "nil"

\* a message with attachments and quick replies but no text was given to
\* SendMsg
C10_Witness ==
  /\ sendOut.called /\ ~sendOut.panicked
  /\ sendIn.text = ""
  /\ sendIn.attachments # <<>> /\ sendIn.quickReplies # <<>>
  /\ posts = <<>> /\ sendOut.status = "E"

====
